---- MODULE Spec2Model ----
(***************************************************************************)
(* The course-management views of educa (courses/views.py,                 *)
(* students/views.py) over the data model of courses/models.py.            *)
(*                                                                         *)
(* The database rows are the state.  Every ORM call of a view is resolved  *)
(* against the models exactly as Django resolves it: a keyword of          *)
(* filter()/get() that names no field of the model raises FieldError, an   *)
(* attribute the model does not declare raises AttributeError, and an      *)
(* exception that leaves a view is an HTTP 500 ("server_error").           *)
(***************************************************************************)
EXTENDS Integers, FiniteSets, Sequences, TLC

\* ------------------------------------------------------------- bounds
NumUsers == 2
MaxCourses == 2
MaxModules == 2
MaxContents == 2

Users == 1..NumUsers
CourseIds == 1..MaxCourses
ModuleIds == 1..MaxModules
ContentIds == 1..MaxContents
\* item ids a request may carry; 0 is the URL without an id
ItemIds == 0..MaxContents

VARIABLES course, module, content, item, students, nextId, cache,
          response, del, ord

vars == <<course, module, content, item, students, nextId, cache,
          response, del, ord>>

\* ------------------------------------------------------------- inputs

\* The stored subjects: reference data that no view writes.
Subjects == {1}

\* The subject slugs a request may carry: 0 is the URL without a subject,
\* 1 the slug of the stored subject, 2 a slug of no subject.
Slugs == {0, 1, 2}

\* ------------------------------------------------------------- models.py

\* The fields Django gives each model: its columns, and its relations
\* (forward foreign keys and the reverse accessors named by related_name),
\* each relation with the model it leads to.
SubjectSchema ==
    [columns |-> {"id", "title", "slug"},
     rels |-> {<<"courses", "Course">>}]

CourseSchema ==
    [columns |-> {"id", "title", "slug", "overview", "created"},
     rels |-> {<<"owner", "User">>, <<"subject", "Subject">>,
               <<"modules", "Module">>}]

\* What the views and the documented data model take Module to be: the
\* foreign key named course, and an order column.
ModuleSchemaCourseOrder ==
    [columns |-> {"id", "title", "description", "order"},
     rels |-> {<<"course", "Course">>, <<"contents", "Content">>}]

\* class Module: the foreign key to Course is declared as `cource`, and there
\* is no order column.
ModuleSchema ==
    [columns |-> {"id", "title", "description"},
     rels |-> {<<"cource", "Course">>, <<"contents", "Content">>}]

\* class Content: module, content_type, object_id; item is a
\* GenericForeignKey, which is no column and cannot be filtered on.
ContentSchema ==
    [columns |-> {"id", "object_id"},
     rels |-> {<<"module", "Module">>, <<"content_type", "ContentType">>}]

\* ItemBase (abstract) as inherited by Text, File and Video.
ItemSchema ==
    [columns |-> {"id", "title", "created", "updated"},
     rels |-> {<<"owner", "User">>}]

UserSchema ==
    [columns |-> {"id", "username"},
     rels |-> {<<"courses_created", "Course">>}]

Schema(model) ==
    CASE model = "Subject" -> SubjectSchema
      [] model = "Course" -> CourseSchema
      [] model = "Module" -> ModuleSchema
      [] model = "Content" -> ContentSchema
      [] model \in {"Text", "File", "Video"} -> ItemSchema
      [] model = "User" -> UserSchema
      [] OTHER -> [columns |-> {}, rels |-> {}]

\* The concrete models of the app `courses`, by their lower-case model name.
\* ItemBase is abstract; no Image model is declared.
AppModels ==
    {"subject", "course", "module", "content", "text", "file", "video"}

HasField(model, name) ==
    \/ name \in Schema(model).columns
    \/ \E r \in Schema(model).rels : r[1] = name

RelTarget(model, name) ==
    IF \E r \in Schema(model).rels : r[1] = name
    THEN (CHOOSE r \in Schema(model).rels : r[1] = name)[2]
    ELSE "none"

\* Whether Django can resolve the lookup keyword a__b__c against `model`:
\* every name but the last must be a relation, the last a field.
RECURSIVE Resolves(_, _)
Resolves(model, path) ==
    IF path = <<>> THEN TRUE
    ELSE IF ~HasField(model, Head(path)) THEN FALSE
    ELSE IF Len(path) = 1 THEN TRUE
    ELSE /\ RelTarget(model, Head(path)) # "none"
         /\ Resolves(RelTarget(model, Head(path)), Tail(path))

\* The row a stored row's relation leads to (0: none).
Related(model, id, target) ==
    CASE model = "Content" /\ target = "Module" ->
            IF id \in DOMAIN content THEN content[id].module ELSE 0
      [] model = "Module" /\ target = "Course" ->
            IF id \in DOMAIN module THEN module[id] ELSE 0
      [] model = "Course" /\ target = "User" ->
            IF id \in DOMAIN course THEN course[id].owner ELSE 0
      [] OTHER -> 0

\* The value a resolved lookup path has on row `id` of `model` (0: none).
RECURSIVE PathValue(_, _, _)
PathValue(model, id, path) ==
    IF path = <<>> \/ id = 0 THEN id
    ELSE PathValue(RelTarget(model, Head(path)),
                   Related(model, id, RelTarget(model, Head(path))),
                   Tail(path))

Rows(model) ==
    CASE model = "Course" -> DOMAIN course
      [] model = "Module" -> DOMAIN module
      [] model = "Content" -> DOMAIN content
      [] OTHER -> {}

\* Model.objects.filter(id=id, <path>=user): the matching row ids.
\* Only evaluated where Resolves(model, path).
Matching(model, id, path, user) ==
    {r \in Rows(model) \cap {id} : PathValue(model, r, path) = user}

\* ------------------------------------------------------------- rows

NoRows == [i \in {} |-> 0]

Without(f, ids) == [i \in DOMAIN f \ ids |-> f[i]]

ModulesOf(cs) == {m \in DOMAIN module : module[m] \in cs}

ContentsOf(ms) == {k \in DOMAIN content : content[k].module \in ms}

\* The item a Content row's (content_type, object_id) names, if stored.
ItemsOf(k) ==
    {i \in item : i.model = content[k].content_type /\ i.id = content[k].object_id}

\* The owner that the data reaches from a module or a content row (0: none).
ModuleOwner(m) ==
    IF m \in DOMAIN module /\ module[m] \in DOMAIN course
    THEN course[module[m]].owner ELSE 0

ContentOwner(k) ==
    IF k \in DOMAIN content THEN ModuleOwner(content[k].module) ELSE 0

Resp(op, user, target, status, error, body) ==
    [op |-> op, user |-> user, target |-> target, status |-> status,
     error |-> error, body |-> body]

IdleDel == [pc |-> "idle", user |-> 0, id |-> 0, row |-> 0,
            itemDeleted |-> FALSE, rowDeleted |-> FALSE]

IdleOrd == [pc |-> "idle", user |-> 0, scope |-> "none", json |-> NoRows,
            pending |-> {}, owned |-> {}, written |-> NoRows]

\* ------------------------------------------------------------- Init

\* The tables are empty, or hold one course of the instructor (user 1) with
\* one module and one content row bound to its text item: rows every table
\* of models.py admits.  Subjects are reference data no view writes.
Init ==
    /\ students = {}
    /\ cache = NoRows
    /\ response = Resp("none", 0, 0, "none", "none", 0)
    /\ del = IdleDel
    /\ ord = IdleOrd
    /\ \/ /\ course = NoRows
          /\ module = NoRows
          /\ content = NoRows
          /\ item = {}
          /\ nextId = [Course |-> 1, Module |-> 1, Content |-> 1,
                       text |-> 1, file |-> 1, video |-> 1]
       \/ /\ course = [i \in {1} |-> [owner |-> 1, subject |-> 1]]
          /\ module = [i \in {1} |-> 1]
          /\ content = [i \in {1} |->
                          [module |-> 1, content_type |-> "text", object_id |-> 1]]
          /\ item = {[model |-> "text", id |-> 1, owner |-> 1]}
          /\ nextId = [Course |-> 2, Module |-> 2, Content |-> 2,
                       text |-> 2, file |-> 1, video |-> 1]

\* ------------------------------------------------------------- courses

\* Deleting courses: Django's collector follows the reverse foreign keys
\* Module.cource and Content.module (on_delete defaults to CASCADE).  No item
\* model declares a relation to Content, so items are not collected.
CascadeCourses(cs) ==
    /\ course' = Without(course, cs)
    /\ module' = Without(module, ModulesOf(cs))
    /\ content' = Without(content, ContentsOf(ModulesOf(cs)))
    /\ item' = item

CascadeModules(ms) ==
    /\ course' = course
    /\ module' = Without(module, ms)
    /\ content' = Without(content, ContentsOf(ms))
    /\ item' = item

\* CourseCreateView: form_valid stores the course with owner = request.user
\* and redirects.
CourseCreate(u, s) ==
    /\ nextId.Course <= MaxCourses
    /\ course' = [i \in DOMAIN course \cup {nextId.Course} |->
                    IF i = nextId.Course THEN [owner |-> u, subject |-> s]
                    ELSE course[i]]
    /\ nextId' = [nextId EXCEPT !.Course = @ + 1]
    /\ UNCHANGED <<module, content, item, students, cache, response, del, ord>>

\* CourseDeleteView: the queryset is filtered by owner = request.user; a
\* course outside it is a 404 that changes nothing.
CourseDelete(u, c) ==
    /\ c \in DOMAIN course
    /\ course[c].owner = u
    /\ CascadeCourses({c})
    /\ UNCHANGED <<students, nextId, cache, response, del, ord>>

\* ModuleFormSet.save() for the course: the forms marked for deletion are
\* deleted and the added form, if any, is stored with the course as parent.
ModuleFormSetSave(c, add, dels) ==
    /\ course' = course
    /\ module' = [i \in (DOMAIN module \ dels)
                        \cup (IF add THEN {nextId.Module} ELSE {}) |->
                    IF i \in DOMAIN module THEN module[i] ELSE c]
    /\ content' = Without(content, ContentsOf(dels))
    /\ item' = item
    /\ nextId' = [nextId EXCEPT !.Module = IF add THEN @ + 1 ELSE @]

\* CourseModuleUpdateView: dispatch() gets the course of request.user (or
\* answers 404, changing nothing), post() saves the formset.
CourseModuleUpdate(u, c, add, dels) ==
    /\ add => nextId.Module <= MaxModules
    /\ dels \subseteq ModulesOf({c})
    /\ Cardinality(dels) <= 1
    /\ c \in DOMAIN course
    /\ course[c].owner = u
    /\ ModuleFormSetSave(c, add, dels)
    /\ UNCHANGED <<students, cache, response, del, ord>>

\* ------------------------------------------------------------- contents

\* ContentCreateUpdateView.get_model: the four names it lets through.
KindNames == {"text", "video", "image", "file"}

\* The model_name path segments a request may carry.
ModelNames == KindNames \cup {"malware"}

\* get_model(model_name): apps.get_model looks the name up among the models
\* of the app and raises LookupError for a name that is none of them; a name
\* outside the list yields None.
get_model(name) ==
    IF name \in KindNames
    THEN IF name \in AppModels THEN name ELSE "LookupError"
    ELSE "None"

\* The lookup dispatch() hands to get_object_or_404(Module, ...).
ModuleOwnerLookup == <<"course", "owner">>

\* The lookup ContentDeleteView.post hands to get_object_or_404(Content, ...).
ContentOwnerLookup == <<"module", "course", "owner">>

\* The lookup both order views hand to filter().
OrderOwnerLookup == <<"course", "owner">>

PostBody(u, m, name, id, valid, items, contents) ==
    [model_name |-> name, id |-> id, valid |-> valid,
     moduleExists |-> m \in DOMAIN module, isOwner |-> ModuleOwner(m) = u,
     items |-> items, contents |-> contents]

PostFails(u, m, name, id, valid, status, error) ==
    /\ response' = Resp("content_post", u, m, status, error,
                        PostBody(u, m, name, id, valid, {}, {}))
    /\ UNCHANGED <<course, module, content, item, students, nextId, cache,
                   del, ord>>

\* ContentCreateUpdateView, a POST: dispatch() then post().  id = 0 stands
\* for the URL without an id (a new content).
ContentPost(u, m, name, id, valid) ==
    LET model == get_model(name) IN
    /\ (id = 0 /\ valid) => nextId.Content <= MaxContents
    /\ IF ~Resolves("Module", ModuleOwnerLookup)
       THEN PostFails(u, m, name, id, valid, "server_error", "FieldError")
       ELSE IF Matching("Module", m, ModuleOwnerLookup, u) = {}
       THEN PostFails(u, m, name, id, valid, "not_found", "Http404")
       ELSE IF model = "LookupError"
       THEN PostFails(u, m, name, id, valid, "server_error", "LookupError")
       ELSE IF model = "None"
       THEN PostFails(u, m, name, id, valid, "server_error", "ValueError")
       ELSE IF id # 0 /\ [model |-> model, id |-> id, owner |-> u] \notin item
       THEN PostFails(u, m, name, id, valid, "not_found", "Http404")
       ELSE IF ~valid
       THEN PostFails(u, m, name, id, valid, "ok", "none")
       ELSE IF id # 0
       THEN \* obj.owner = request.user; obj.save(): the row keeps its key
            PostFails(u, m, name, id, valid, "ok", "none")
       ELSE LET obj == [model |-> model, id |-> nextId[model], owner |-> u]
                row == [module |-> m, content_type |-> model,
                        object_id |-> nextId[model]]
            IN /\ item' = item \cup {obj}
               /\ content' = [k \in DOMAIN content \cup {nextId.Content} |->
                                IF k = nextId.Content THEN row ELSE content[k]]
               /\ nextId' = [nextId EXCEPT ![model] = @ + 1,
                                           !.Content = @ + 1]
               /\ response' = Resp("content_post", u, m, "redirect", "none",
                                   PostBody(u, m, name, id, valid, {obj},
                                            {nextId.Content}))
               /\ UNCHANGED <<course, module, students, cache, del, ord>>

\* A call of get_model on its own.
GetModel(name) ==
    /\ response' = Resp("get_model", 0, 0, "none", "none",
                        [model_name |-> name, result |-> get_model(name)])
    /\ UNCHANGED <<course, module, content, item, students, nextId, cache,
                   del, ord>>

\* ContentDeleteView.post arrives; its statements run one at a time, each
\* committed on its own (no transaction is opened), other requests between.
ContentDeleteRequest(u, k) ==
    /\ del.pc \notin {"lookup", "item", "row"}
    /\ del' = [IdleDel EXCEPT !.pc = "lookup", !.user = u, !.id = k]
    /\ UNCHANGED <<course, module, content, item, students, nextId, cache,
                   response, ord>>

DeleteEnds(pc) ==
    /\ del' = [del EXCEPT !.pc = pc]
    /\ UNCHANGED <<content, item>>

ContentDeleteStep ==
    /\ del.pc \in {"lookup", "item", "row"}
    /\ CASE del.pc = "lookup" ->
              \* content = get_object_or_404(Content, id=id, module__course__owner=user)
              IF ~Resolves("Content", ContentOwnerLookup)
              THEN DeleteEnds("FieldError")
              ELSE IF Matching("Content", del.id, ContentOwnerLookup, del.user) = {}
              THEN DeleteEnds("Http404")
              ELSE /\ del' = [del EXCEPT !.pc = "item", !.row = content[del.id]]
                   /\ UNCHANGED <<content, item>>
         [] del.pc = "item" ->
              \* content.item.delete(); item is None when the row is gone
              LET found == {i \in item : /\ i.model = del.row.content_type
                                         /\ i.id = del.row.object_id}
              IN IF found = {}
                 THEN DeleteEnds("AttributeError")
                 ELSE /\ item' = item \ found
                      /\ del' = [del EXCEPT !.pc = "row", !.itemDeleted = TRUE]
                      /\ content' = content
         [] del.pc = "row" ->
              \* content.delete(), unless the request dies before it
              \E fault \in BOOLEAN :
                 IF fault
                 THEN DeleteEnds("fault")
                 ELSE /\ content' = Without(content, {del.id})
                      /\ del' = [del EXCEPT !.pc = "redirect",
                                            !.rowDeleted = TRUE]
                      /\ item' = item
    /\ UNCHANGED <<course, module, students, nextId, cache, response, ord>>

\* ------------------------------------------------------------- ordering

\* The JSON objects a client may send, id -> order: any set of ids, listed
\* in reverse (the order of an id is its distance from the last id).
Jsons == {[i \in S |-> MaxModules - i] : S \in SUBSET ModuleIds}

OrderModel(scope) == IF scope = "module" THEN "Module" ELSE "Content"

OrderOwned(u, scope, ids) ==
    {i \in ids : IF scope = "module" THEN ModuleOwner(i) = u
                 ELSE ContentOwner(i) = u}

OrderRequest(u, scope, json) ==
    /\ ord.pc # "run"
    /\ ord' = [pc |-> "run", user |-> u, scope |-> scope, json |-> json,
               pending |-> DOMAIN json,
               owned |-> OrderOwned(u, scope, DOMAIN json),
               written |-> NoRows]
    /\ UNCHANGED <<course, module, content, item, students, nextId, cache,
                   response, del>>

\* ModuleOrderView.post arrives.
ModuleOrderRequest(u, json) == OrderRequest(u, "module", json)

\* ContentOrderView.post arrives.
ContentOrderRequest(u, json) == OrderRequest(u, "content", json)

\* One turn of the loop of either view: filter(id=id, course__owner=user)
\* then update(order=order), committed on its own; after the last pair the
\* view answers {'saved': 'OK'}.
OrderStep ==
    /\ ord.pc = "run"
    /\ IF ord.pending = {}
       THEN ord' = [ord EXCEPT !.pc = "saved"]
       ELSE \E id \in ord.pending :
              IF ~Resolves(OrderModel(ord.scope), OrderOwnerLookup)
              THEN ord' = [ord EXCEPT !.pc = "FieldError"]
              ELSE IF ~HasField(OrderModel(ord.scope), "order")
              THEN ord' = [ord EXCEPT !.pc = "FieldDoesNotExist"]
              ELSE LET hit == Matching(OrderModel(ord.scope), id,
                                       OrderOwnerLookup, ord.user)
                   IN ord' = [ord EXCEPT
                         !.pending = @ \ {id},
                         !.written = [i \in DOMAIN @ \cup hit |->
                                        IF i \in hit THEN ord.json[id] ELSE @[i]]]
    /\ UNCHANGED <<course, module, content, item, students, nextId, cache,
                   response, del>>

\* ------------------------------------------------------------- catalog

\* The cache keys of CourseListView.get.
Key(name, id) == [name |-> name, id |-> id]

Put(f, k, v) == [x \in DOMAIN f \cup {k} |-> IF x = k THEN v ELSE f[x]]

\* The cache is never trusted: every call recomputes.
FalsyAlways(c, key) == TRUE

\* `not cache.get(key)`: no value is stored, or the stored queryset is empty.
Falsy(c, key) == key \notin DOMAIN c \/ DOMAIN c[key] = {}

\* Subject.objects.annotate(total_courses=Count('courses')), evaluated.
SubjectCounts ==
    [s \in Subjects |-> Cardinality({c \in DOMAIN course : course[c].subject = s})]

\* Course.objects.annotate(total_modules=Count('modules')) over the courses
\* cs, evaluated.
CourseCounts(cs) == [c \in cs |-> Cardinality(ModulesOf({c}))]

\* CourseListView.get.  cache.set pickles the queryset, which evaluates it:
\* what is stored is the rows of that moment.  Of the rendered context the
\* response keeps the courses; fresh, stored and cached record what the
\* database and the cache held when the request was served.
CourseList(slug) ==
    LET k1 == Key("all_subjects", 0)
        cache1 == IF Falsy(cache, k1) THEN Put(cache, k1, SubjectCounts)
                  ELSE cache
        key == IF slug # 0 THEN Key("subject_courses", slug)
               ELSE Key("all_courses", 0)
        fresh == CourseCounts(IF slug # 0
                              THEN {c \in DOMAIN course : course[c].subject = slug}
                              ELSE DOMAIN course)
        courses == IF Falsy(cache1, key) THEN fresh ELSE cache1[key]
    IN /\ IF ~Resolves("Subject", <<"courses">>) \/ ~Resolves("Course", <<"modules">>)
          THEN /\ cache' = cache
               /\ response' = Resp("course_list", 0, slug, "server_error",
                                   "FieldError", 0)
          ELSE IF slug # 0 /\ slug \notin Subjects
          THEN /\ cache' = cache1
               /\ response' = Resp("course_list", 0, slug, "not_found",
                                   "Http404", 0)
          ELSE /\ cache' = IF Falsy(cache1, key) THEN Put(cache1, key, fresh)
                           ELSE cache1
               /\ response' = Resp("course_list", 0, slug, "ok", "none",
                                   [courses |-> courses, fresh |-> fresh,
                                    stored |-> key \in DOMAIN cache,
                                    cached |-> IF key \in DOMAIN cache
                                               THEN cache[key] ELSE NoRows])
       /\ UNCHANGED <<course, module, content, item, students, nextId, del, ord>>

\* The cache drops a key: its timeout passes, or it is cleared from outside.
CacheExpire(key) ==
    /\ key \in DOMAIN cache
    /\ cache' = Without(cache, {key})
    /\ UNCHANGED <<course, module, content, item, students, nextId, response,
                   del, ord>>

\* ------------------------------------------------------------- students

\* An attribute of a model instance: a field or a reverse accessor.
HasAttr(model, name) == HasField(model, name)

\* StudentEnrollCourseView, a POST: the form is valid when it names a stored
\* course; form_valid() then adds request.user to course.students.
Enroll(u, c) ==
    IF c \notin DOMAIN course
    THEN /\ response' = Resp("enroll", u, c, "ok", "invalid_choice", 0)
         /\ UNCHANGED <<course, module, content, item, students, nextId,
                        cache, del, ord>>
    ELSE IF ~HasAttr("Course", "students")
    THEN /\ response' = Resp("enroll", u, c, "server_error", "AttributeError", 0)
         /\ UNCHANGED <<course, module, content, item, students, nextId,
                        cache, del, ord>>
    ELSE /\ students' = students \cup {<<c, u>>}
         /\ response' = Resp("enroll", u, c, "redirect", "none", 0)
         /\ UNCHANGED <<course, module, content, item, nextId, cache, del, ord>>

DetailBody(u, c, shown) ==
    [exists |-> c \in DOMAIN course, enrolled |-> <<c, u>> \in students,
     module |-> shown]

Smallest(S) == CHOOSE x \in S : \A y \in S : x <= y

\* StudentCourseDetailView, a GET: get_queryset() keeps the courses whose
\* students include request.user; get_context_data() picks the module.
\* mid = 0 stands for the URL without a module_id.
StudentCourseDetail(u, c, mid) ==
    /\ response' =
         IF ~Resolves("Course", <<"students">>)
         THEN Resp("student_detail", u, c, "server_error", "FieldError",
                   DetailBody(u, c, 0))
         ELSE IF c \notin DOMAIN course \/ <<c, u>> \notin students
         THEN Resp("student_detail", u, c, "not_found", "Http404",
                   DetailBody(u, c, 0))
         ELSE IF mid # 0 /\ mid \notin ModulesOf({c})
         THEN Resp("student_detail", u, c, "server_error", "DoesNotExist",
                   DetailBody(u, c, 0))
         ELSE IF mid = 0 /\ ModulesOf({c}) = {}
         THEN Resp("student_detail", u, c, "server_error", "IndexError",
                   DetailBody(u, c, 0))
         ELSE Resp("student_detail", u, c, "ok", "none",
                   DetailBody(u, c, IF mid # 0 THEN mid
                                    ELSE Smallest(ModulesOf({c}))))
    /\ UNCHANGED <<course, module, content, item, students, nextId, cache,
                   del, ord>>

\* ------------------------------------------------------------- specifications

\* The instructor's course and module views, which every part shares.
ManageNext ==
    \/ \E u \in Users, s \in Subjects : CourseCreate(u, s)
    \/ \E u \in Users, c \in CourseIds : CourseDelete(u, c)
    \/ \E u \in Users, c \in CourseIds, add \in BOOLEAN,
          dels \in SUBSET ModuleIds : CourseModuleUpdate(u, c, add, dels)

ContentNext ==
    \/ ManageNext
    \/ \E u \in Users, m \in ModuleIds, name \in ModelNames, id \in ItemIds,
          valid \in BOOLEAN : ContentPost(u, m, name, id, valid)
    \/ \E name \in ModelNames : GetModel(name)

DeleteNext ==
    \/ ManageNext
    \/ \E u \in Users, k \in ContentIds : ContentDeleteRequest(u, k)
    \/ ContentDeleteStep

OrderNext ==
    \/ ManageNext
    \/ \E u \in Users, json \in Jsons : ModuleOrderRequest(u, json)
    \/ \E u \in Users, json \in Jsons : ContentOrderRequest(u, json)
    \/ OrderStep

\* The course list with the views that change the set of courses.
CatalogNext ==
    \/ \E u \in Users, s \in Subjects : CourseCreate(u, s)
    \/ \E u \in Users, c \in CourseIds : CourseDelete(u, c)
    \/ \E slug \in Slugs : CourseList(slug)
    \/ \E key \in DOMAIN cache : CacheExpire(key)

StudentNext ==
    \/ ManageNext
    \/ \E u \in Users, c \in CourseIds : Enroll(u, c)
    \/ \E u \in Users, c \in CourseIds, mid \in 0..MaxModules :
          StudentCourseDetail(u, c, mid)

Next ==
    \/ ContentNext
    \/ DeleteNext
    \/ OrderNext
    \/ CatalogNext
    \/ StudentNext

\* All views together, and the views of each part on their own: a property
\* of one part is checked under that part's specification.
Spec == Init /\ [][Next]_vars

SpecContent == Init /\ [][ContentNext]_vars

SpecDelete == Init /\ [][DeleteNext]_vars

SpecOrder == Init /\ [][OrderNext]_vars

SpecCatalog == Init /\ [][CatalogNext]_vars

SpecStudents == Init /\ [][StudentNext]_vars

\* ------------------------------------------------------------- properties

ReorderDone == ord.pc \notin {"idle", "run"}

\* C1: a finished reorder request has answered {'saved': 'OK'} and has
\* written exactly the supplied order of every listed row the requesting
\* user owns, and of no other row.
C1_ReorderWritesOwnedRows ==
    ReorderDone =>
        /\ ord.pc = "saved"
        /\ ord.written = [i \in ord.owned |-> ord.json[i]]

C3_NonOwnerCreateRejected ==
    (/\ response.op = "content_post"
     /\ response.body.id = 0
     /\ response.body.moduleExists
     /\ ~response.body.isOwner)
    => /\ response.status \in {"not_found", "forbidden"}
       /\ response.body.items = {}
       /\ response.body.contents = {}

\* C4: a valid content-creation request by the owner of the module's course
\* creates exactly one item, owned by that user, and exactly one Content row
\* for it in the module, which carries an order.
C4_OwnerCreateAddsOneContent ==
    (/\ response.op = "content_post"
     /\ response.body.id = 0
     /\ response.body.valid
     /\ response.body.isOwner
     /\ response.body.model_name \in KindNames)
    => /\ response.status = "redirect"
       /\ Cardinality(response.body.items) = 1
       /\ \A i \in response.body.items : i.owner = response.user
       /\ Cardinality(response.body.contents) = 1
       /\ HasField("Content", "order")

\* C5: get_model yields the item model of each of text, video, image and
\* file and the not-found result (None) for any other name, and a content
\* request with such a name is answered NotFound and creates nothing.
C5_KindResolution ==
    /\ response.op = "get_model" =>
          response.body.result =
             IF response.body.model_name \in KindNames
             THEN response.body.model_name ELSE "None"
    /\ (response.op = "content_post" /\ response.body.model_name \notin KindNames)
       => /\ response.status = "not_found"
          /\ response.body.items = {}
          /\ response.body.contents = {}

\* C6 as stated: once a value is stored under all_courses, a course list
\* without a subject answers with that stored value, whatever courses were
\* created since, also when the stored value is the empty list.
C6_StoredCourseListIsServed ==
    (/\ response.op = "course_list"
     /\ response.target = 0
     /\ response.status = "ok"
     /\ response.body.stored)
    => response.body.courses = response.body.cached

\* C6 as amended: once a non-empty value is stored under all_courses, a
\* course list without a subject answers with that stored value, whatever
\* courses were created since; with nothing stored, or the empty list
\* stored, it answers with the courses of the database.
C6_NonEmptyStoredCourseListIsServed ==
    (/\ response.op = "course_list"
     /\ response.target = 0
     /\ response.status = "ok")
    => response.body.courses =
          IF response.body.stored /\ DOMAIN response.body.cached # {}
          THEN response.body.cached ELSE response.body.fresh

\* A course list has been answered from the cache with a stored list that
\* lacks a course the database held.
C6_StaleListServed ==
    /\ response.op = "course_list"
    /\ response.target = 0
    /\ response.body.stored
    /\ response.body.courses = response.body.cached
    /\ DOMAIN response.body.cached # {}
    /\ DOMAIN response.body.fresh \ DOMAIN response.body.cached # {}

\* C7: an enroll request for a stored course reports no error and leaves
\* the student in the students of the course.
C7_EnrollAddsStudent ==
    (response.op = "enroll" /\ response.error # "invalid_choice")
    => /\ response.status = "redirect"
       /\ <<response.target, response.user>> \in students

\* C8: the student course detail view shows a course and a module only to an
\* enrolled user, and answers NotFound, showing no module, for a stored
\* course the user is not enrolled in.
C8_DetailOnlyForEnrolled ==
    response.op = "student_detail" =>
        /\ response.status = "ok" =>
              response.body.enrolled /\ response.body.module # 0
        /\ (response.body.exists /\ ~response.body.enrolled) =>
              response.status = "not_found" /\ response.body.module = 0

DeleteInProgress == del.pc \in {"lookup", "item", "row"}

\* C9: whenever no delete is in progress, every Content row references
\* exactly one stored item and every stored item is referenced by exactly
\* one Content row.
C9_ContentItemOneToOne ==
    ~DeleteInProgress =>
        /\ \A k \in DOMAIN content : Cardinality(ItemsOf(k)) = 1
        /\ \A i \in item :
              Cardinality({k \in DOMAIN content : i \in ItemsOf(k)}) = 1

====
